---- MODULE Spec2Model ----
(***************************************************************************)
(* Fall-detection escalation pipeline: the sampling interval of            *)
(* VideoDisplay, the single-flight handler handleFrameAnalysis, the        *)
(* countdown effect of App, the human commands of the monitor view and the *)
(* speech dispatcher of services/aiService.ts.                             *)
(*                                                                         *)
(* React commits a state update and re-runs the effects whose dependencies *)
(* changed before the next timer or input event is handled (the timers are *)
(* 1 s and 3 s apart), so one action is one handler together with the      *)
(* commit and the effect run that follow it.  Awaited provider calls are   *)
(* the only suspension points: each one is a message in flight that a      *)
(* later action completes.  State updates made in one continuation         *)
(* (setStatus, setCountdown, addLog after the await) are committed          *)
(* together, as React 18 and later batch them.                             *)
(*                                                                         *)
(* Confidence is kept in hundredths (0.4 is 40).  The text of a log entry  *)
(* and the reasoning field of a result do not influence control flow and   *)
(* are left out.                                                           *)
(***************************************************************************)
EXTENDS Integers, Sequences, FiniteSets, Bags

VARIABLES
    status,         \* App.tsx:20   SystemStatus
    isAnalyzing,    \* App.tsx:21   busy flag
    countdown,      \* App.tsx:56
    logs,           \* App.tsx:49   newest first
    lastDetection,  \* App.tsx:48
    config,         \* App.tsx:29   the fields that select a provider
    inflight,       \* analyzeScene calls that were started and have not settled
    ttsCalls,       \* speakWithGemini / speakWithCustomApi calls awaiting the network
    audio,          \* remote audio that is playing (AudioBufferSource / Audio element)
    synth,          \* window.speechSynthesis utterance queue
    lastEvent,      \* the handler that ran last
    step,           \* position in the end-to-end scenario (0 outside it)
    clock,          \* age of the sampling interval and time since arming, in seconds
    call            \* argument and result of a service function applied on its own

vars == <<status, isAnalyzing, countdown, logs, lastDetection, config,
          inflight, ttsCalls, audio, synth, lastEvent, step, clock, call>>

----------------------------------------------------------------------------
\* Bounds of the model

MaxLog == 2
MaxTextLen == 3
MaxSpeak == 2
MaxAdds == 3
MaxContactId == 3
MaxIncidentLog == 4

----------------------------------------------------------------------------
\* Program constants and domains

CountdownStart == 10
CriticalThreshold == 40
InfoThreshold == 20
LogCap == 500
SamplePeriod == 3

SystemStatus == {"IDLE", "MONITORING", "ALERT", "EMERGENCY"}
InferenceMode == {"CLOUD", "LOCAL", "CUSTOM"}
VoiceTypes == {"ai", "custom_api", "local"}

ConfValues == {20, 40, 50}
Postures == {"lying", "unknown"}

DetectionResult == [isFallDetected : BOOLEAN, confidence : ConfValues, posture : Postures]

\* customTtsReady: customTtsUrl and customTtsApiKey are both non-empty; the
\* field is read by the custom_api engine only
SystemConfig ==
    {c \in [mode : InferenceMode, voiceType : VoiceTypes, customTtsReady : BOOLEAN] :
        c.voiceType # "custom_api" => ~c.customTtsReady}

InitialDetection == [isFallDetected |-> FALSE, confidence |-> 0, posture |-> "none"]

\* The result the CLOUD branch of analyzeScene returns from its catch
FailureResult == [isFallDetected |-> FALSE, confidence |-> 0, posture |-> "unknown"]

----------------------------------------------------------------------------
\* Raw provider payloads: the object JSON.parse returns, each field a
\* JavaScript value tagged with its type.  Undefined is a missing field.

Undefined == [t |-> "undefined"]
Null == [t |-> "null"]
JsBool(b) == [t |-> "boolean", v |-> b]
JsNum(n) == [t |-> "number", v |-> n]
JsStr(str) == [t |-> "string", v |-> str]

\* ToBoolean of the JSON scalar values
Truthy(x) ==
    CASE x.t \in {"undefined", "null"} -> FALSE
      [] x.t = "boolean" -> x.v
      [] x.t = "number" -> x.v # 0
      [] x.t = "string" -> x.v # ""

\* x || d
OrElse(x, d) == IF Truthy(x) THEN x ELSE d

RawPayload ==
    [isFallDetected : {Undefined, Null, JsBool(TRUE), JsBool(FALSE), JsNum(1), JsStr("true")},
     confidence : {Undefined, Null, JsNum(0), JsNum(50), JsNum(150), JsStr("50")},
     reasoning : {Undefined, JsStr(""), JsStr("text")},
     posture : {Undefined, Null, JsStr(""), JsStr("lying"), JsStr("flying")}]

\* Variant: the posture of the payload passed through as it is
validateResult_RawPosture(result) ==
    [isFallDetected |-> JsBool(Truthy(result.isFallDetected)),
     confidence |-> OrElse(result.confidence, JsNum(0)),
     reasoning |-> OrElse(result.reasoning, JsStr("placeholder")),
     posture |-> result.posture]

\* The placeholder text of the source is written "placeholder" here.
validateResult(result) ==
    [isFallDetected |-> JsBool(Truthy(result.isFallDetected)),
     confidence |-> OrElse(result.confidence, JsNum(0)),
     reasoning |-> OrElse(result.reasoning, JsStr("placeholder")),
     posture |-> OrElse(result.posture, JsStr("unknown"))]

----------------------------------------------------------------------------
\* Activity log

LogEntry(type, logStatus) == [type |-> type, status |-> logStatus]

\* Variant: the new entry put last
addLog_Appends(lg, type, logStatus) ==
    LET grown == lg \o <<LogEntry(type, logStatus)>>
    IN  IF Len(grown) > LogCap THEN SubSeq(grown, 1, LogCap) ELSE grown

\* Variant: without slice(0, 500)
addLog_NoCap(lg, type, logStatus) == <<LogEntry(type, logStatus)>> \o lg

addLog(lg, type, logStatus) ==
    LET grown == <<LogEntry(type, logStatus)>> \o lg
    IN  IF Len(grown) > LogCap THEN SubSeq(grown, 1, LogCap) ELSE grown

CountLogs(lg, type, logStatus) ==
    Cardinality({i \in 1..Len(lg) : lg[i] = LogEntry(type, logStatus)})

----------------------------------------------------------------------------
\* Text of a spoken message: a sequence of characters.  "a" stands for any
\* character that is neither whitespace nor replaced by sanitizeForTTS.

BracketChars == {"LBRACE", "RBRACE", "QUOTE", "LBRACKET", "RBRACKET"}
ColonChars == {"COLON", "FWCOLON"}
WhitespaceChars == {"SP", "TAB"}
TextChars == {"a"} \cup WhitespaceChars \cup BracketChars \cup ColonChars

Texts == UNION {[1..n -> TextChars] : n \in 0..MaxTextLen}

\* text.replace(/[S]/g, " ")
ReplaceAll(text, S) == [i \in 1..Len(text) |-> IF text[i] \in S THEN "SP" ELSE text[i]]

\* text.replace(/\s+/g, " ")
RECURSIVE CollapseWhitespace(_)
CollapseWhitespace(text) ==
    IF text = <<>> THEN <<>>
    ELSE IF Head(text) \notin WhitespaceChars
    THEN <<Head(text)>> \o CollapseWhitespace(Tail(text))
    ELSE IF Len(text) > 1 /\ text[2] \in WhitespaceChars
    THEN CollapseWhitespace(Tail(text))
    ELSE <<"SP">> \o CollapseWhitespace(Tail(text))

RECURSIVE TrimStart(_)
TrimStart(text) ==
    IF text # <<>> /\ Head(text) \in WhitespaceChars THEN TrimStart(Tail(text)) ELSE text

RECURSIVE TrimEnd(_)
TrimEnd(text) ==
    IF text # <<>> /\ text[Len(text)] \in WhitespaceChars
    THEN TrimEnd(SubSeq(text, 1, Len(text) - 1))
    ELSE text

\* Variant: only leading whitespace removed
Trim_StartOnly(text) == TrimStart(text)

\* text.trim()
Trim(text) == TrimEnd(TrimStart(text))

\* Variant: without the replacement of the two colons
sanitizeForTTS_NoColon(text) ==
    IF text = <<>> THEN <<>>
    ELSE Trim(CollapseWhitespace(ReplaceAll(text, BracketChars)))

sanitizeForTTS(text) ==
    IF text = <<>> THEN <<>>
    ELSE Trim(CollapseWhitespace(ReplaceAll(ReplaceAll(text, BracketChars), ColonChars)))

----------------------------------------------------------------------------
\* Speech: the state of the three output channels is a record
\*   [calls, audio, synth]

Speech == [calls |-> ttsCalls, audio |-> audio, synth |-> synth]

\* A request carries its message and the command, if any, that called
\* stopSpeaking while the request existed ("none" until then).
Request(msg, cancelled) == [msg |-> msg, cancelled |-> cancelled]

Mark(e, by) == IF e.cancelled = "none" THEN [e EXCEPT !.cancelled = by] ELSE e

\* The requests of bag B, each uncancelled one marked as cancelled by command by
MarkCancelled(B, by) ==
    LET marked == {Mark(e, by) : e \in BagToSet(B)}
    IN  [m \in marked |->
            CopiesIn(m, B)
            + (IF m.cancelled = by THEN CopiesIn(Request(m.msg, "none"), B) ELSE 0)]

\* stopSpeaking cancels the on-device queue only: window.speechSynthesis.cancel()
\* does not reach a provider call that is awaited nor remote audio that plays.
stopSpeaking(sp, by) ==
    [calls |-> MarkCancelled(sp.calls, by),
     audio |-> MarkCancelled(sp.audio, by),
     synth |-> <<>>]

\* speakLocally: stopSpeaking(), then speak(utterance).  q is the request the
\* utterance belongs to.  The renderer is Chromium (main.js), where
\* window.speechSynthesis exists, so the early return of line 124 is not taken.
speakLocally(sp, q) ==
    [calls |-> sp.calls,
     audio |-> sp.audio,
     synth |-> Append(<<>>, q)]

\* The preferred engine awaits the network, unless it is custom_api with an
\* empty URL or key, which throws at once and falls back to speakLocally.
\* The two messages of App (inquiry, confirm) sanitize to non-empty text.
\* Variant: custom_api sends its request whatever the URL and the key
RemoteCallStarts_IgnoresConfig(cfg) == cfg.voiceType \in {"ai", "custom_api"}

RemoteCallStarts(cfg) ==
    \/ cfg.voiceType = "ai"
    \/ cfg.voiceType = "custom_api" /\ cfg.customTtsReady

\* Variant: the catch of dispatchSpeak rethrows instead of speaking locally
OnEngineFailure_Rethrow(sp, q) == [sp |-> sp, event |-> "ttsRejected"]

\* The catch of dispatchSpeak: the error of the preferred engine is absorbed
\* and the request is spoken on the device.  speakLocally reports its own
\* failures through the utterance's error event and does not throw.
OnEngineFailure(sp, q) == [sp |-> speakLocally(sp, q), event |-> "ttsFail"]

\* dispatchSpeak from its try block on; msg is the sanitized, non-empty text
dispatchSpeak(sp, msg, cfg) ==
    IF RemoteCallStarts(cfg)
    THEN [calls |-> sp.calls (+) SetToBag({Request(msg, "none")}),
          audio |-> sp.audio,
          synth |-> sp.synth]
    ELSE IF cfg.voiceType = "local"
    THEN speakLocally(sp, Request(msg, "none"))
    ELSE OnEngineFailure(sp, Request(msg, "none")).sp

\* Variant: dispatchSpeak without the return on empty sanitized text
dispatchSpeakText_NoEmptyCheck(sp, text, cfg) ==
    dispatchSpeak(sp, sanitizeForTTS(text), cfg)

\* dispatchSpeak applied to a raw text
dispatchSpeakText(sp, text, cfg) ==
    LET cleanText == sanitizeForTTS(text)
    IN  IF cleanText = <<>> THEN sp ELSE dispatchSpeak(sp, cleanText, cfg)

----------------------------------------------------------------------------
\* Classification of a result

\* Variant: the critical threshold compared with >= instead of >
IsCritical_Inclusive(r) == r.isFallDetected /\ r.confidence >= CriticalThreshold

IsCritical(r) == r.isFallDetected /\ r.confidence > CriticalThreshold

\* Variant: the informational threshold compared with >= instead of >
AboveInfo_Inclusive(r) == r.confidence >= InfoThreshold

AboveInfo(r) == r.confidence > InfoThreshold

\* Variant: the critical branch without setCountdown(10)
AfterResult_NoReset(r) ==
    IF IsCritical(r)
    THEN [st |-> "ALERT", cd |-> countdown,
          lg |-> addLog(logs, "fall", "danger"),
          sp |-> dispatchSpeak(Speech, "inquiry", config)]
    ELSE IF AboveInfo(r)
    THEN [st |-> status, cd |-> countdown,
          lg |-> addLog(logs, "human", "info"), sp |-> Speech]
    ELSE [st |-> status, cd |-> countdown, lg |-> logs, sp |-> Speech]

\* Variant: the critical branch without the dispatchSpeak call
AfterResult_NoSpeak(r) ==
    IF IsCritical(r)
    THEN [st |-> "ALERT", cd |-> CountdownStart,
          lg |-> addLog(logs, "fall", "danger"),
          sp |-> Speech]
    ELSE IF AboveInfo(r)
    THEN [st |-> status, cd |-> countdown,
          lg |-> addLog(logs, "human", "info"), sp |-> Speech]
    ELSE [st |-> status, cd |-> countdown, lg |-> logs, sp |-> Speech]

\* Variant: setStatus(ALERT) committed on its own, before setCountdown(10),
\* so that the countdown effect runs once with the new status and the old
\* countdown
AfterResult_Unbatched(r) ==
    IF IsCritical(r)
    THEN IF status # "ALERT" /\ countdown = 0
         THEN [st |-> "EMERGENCY", cd |-> CountdownStart,
               lg |-> addLog(addLog(logs, "fall", "danger"), "contact", "danger"),
               sp |-> dispatchSpeak(dispatchSpeak(Speech, "inquiry", config),
                                    "confirm", config)]
         ELSE [st |-> "ALERT", cd |-> CountdownStart,
               lg |-> addLog(logs, "fall", "danger"),
               sp |-> dispatchSpeak(Speech, "inquiry", config)]
    ELSE IF AboveInfo(r)
    THEN [st |-> status, cd |-> countdown,
          lg |-> addLog(logs, "human", "info"), sp |-> Speech]
    ELSE [st |-> status, cd |-> countdown, lg |-> logs, sp |-> Speech]

\* The state the handler sets for result r
AfterResult(r) ==
    IF IsCritical(r)
    THEN [st |-> "ALERT", cd |-> CountdownStart,
          lg |-> addLog(logs, "fall", "danger"),
          sp |-> dispatchSpeak(Speech, "inquiry", config)]
    ELSE IF AboveInfo(r)
    THEN [st |-> status, cd |-> countdown,
          lg |-> addLog(logs, "human", "info"), sp |-> Speech]
    ELSE [st |-> status, cd |-> countdown, lg |-> logs, sp |-> Speech]

----------------------------------------------------------------------------
\* The countdown effect

\* Variant: the interval is created whatever the status
TimerRunning_NoStatus(st, cd) == cd > 0

\* The first branch of the effect: an interval timer decrements the countdown
TimerRunning(st, cd) == st = "ALERT" /\ cd > 0

\* Variant: the timeout branch taken one tick early
TimeoutBranch_OffByOne(st, cd) == st = "ALERT" /\ cd <= 1

\* Variant: the emergency procedure run whenever the countdown is 0
TimeoutBranch_NoStatus(st, cd) == cd = 0

\* The second branch of the effect: the emergency procedure
TimeoutBranch(st, cd) == st = "ALERT" /\ cd = 0

DepsChanged(st, cd) == st # status \/ cd # countdown

\* The longest log the explored behaviours build: MaxLog, or MaxIncidentLog
\* where two incidents in a row are followed
LogBound == IF call.fn = "incidents" THEN MaxIncidentLog ELSE MaxLog

\* Commit of the state a handler has set, followed by the countdown effect.
\* Steps that would grow the log beyond LogBound are left out of the model.
Commit(st, cd, lg, sp) ==
    IF DepsChanged(st, cd) /\ TimeoutBranch(st, cd)
    THEN /\ status' = "EMERGENCY"
         /\ countdown' = cd
         /\ logs' = addLog(lg, "contact", "danger")
         /\ LET said == dispatchSpeak(sp, "confirm", config)
            IN  /\ ttsCalls' = said.calls
                /\ audio' = said.audio
                /\ synth' = said.synth
         /\ Len(logs') <= LogBound
    ELSE /\ status' = st
         /\ countdown' = cd
         /\ logs' = lg
         /\ ttsCalls' = sp.calls
         /\ audio' = sp.audio
         /\ synth' = sp.synth
         /\ Len(logs') <= LogBound

----------------------------------------------------------------------------
\* The sampling interval of VideoDisplay in discrete time (one unit is one
\* second).  clock.age is the age of the current interval, clock.sinceArm the
\* time since the last arming (counted up to SamplePeriod), clock.disarmed
\* records that the system was disarmed at least once.  With clock.timed
\* FALSE time is abstracted away and a tick may fire whenever its guard holds.
\* clock.timers is the number of countdown intervals of App that were
\* created and not cleared.

Untimed == [timed |-> FALSE, age |-> 0, sinceArm |-> 0, disarmed |-> FALSE, timers |-> 0]

Timed == [timed |-> TRUE, age |-> 0, sinceArm |-> 0, disarmed |-> FALSE, timers |-> 0]

TickDue == clock.timed => clock.age = SamplePeriod

\* Variant: the interval survives a change of the effect's dependencies
IntervalRecreated_Never == FALSE

\* The effect's cleanup clears the interval and the effect creates a new one
\* when isMonitoring, onFrame or isAnalyzing changes; onFrame is a new
\* function whenever status or isAnalyzing changes.
IntervalRecreated == status' # status \/ isAnalyzing' # isAnalyzing

\* The clock across a step that takes no time; fired: the interval's callback ran
\* Variant: the countdown effect without its cleanup function
TimersAfterEffect_NoCleanup(n, st, cd) == n + (IF TimerRunning(st, cd) THEN 1 ELSE 0)

\* The countdown intervals after the countdown effect re-ran with status st
\* and countdown cd: the cleanup of the previous run has cleared the interval
\* that run created, and this run creates one in its first branch.
TimersAfterEffect(n, st, cd) == IF TimerRunning(st, cd) THEN 1 ELSE 0

\* The timers across a step that takes no time; fired: the sampling
\* interval's callback ran
ClockStep(fired) ==
    clock' = [timed |-> clock.timed,
              age |-> IF clock.timed /\ ~(fired \/ IntervalRecreated)
                      THEN clock.age ELSE 0,
              sinceArm |-> IF clock.timed /\ ~(status = "IDLE" /\ status' # "IDLE")
                           THEN clock.sinceArm ELSE 0,
              disarmed |-> clock.timed
                           /\ (clock.disarmed \/ (status # "IDLE" /\ status' = "IDLE")),
              timers |-> IF DepsChanged(status', countdown')
                         THEN TimersAfterEffect(clock.timers, status', countdown')
                         ELSE clock.timers]

----------------------------------------------------------------------------
\* Initial state

NoCall == [fn |-> "none"]

Init ==
    /\ clock = Untimed
    /\ call = NoCall
    /\ status = "IDLE"
    /\ isAnalyzing = FALSE
    /\ countdown = CountdownStart
    /\ logs = <<>>
    /\ lastDetection = InitialDetection
    /\ config \in SystemConfig
    /\ inflight = 0
    /\ ttsCalls = EmptyBag
    /\ audio = EmptyBag
    /\ synth = <<>>
    /\ lastEvent = "init"
    /\ step = 0

----------------------------------------------------------------------------
\* Human commands

Arm ==
    /\ status = "IDLE"
    /\ Commit("MONITORING", countdown, logs, Speech)
    /\ lastEvent' = "arm"
    /\ UNCHANGED <<isAnalyzing, lastDetection, config, inflight, step, call>>
    /\ ClockStep(FALSE)

Disarm ==
    /\ status # "IDLE"
    /\ Commit("IDLE", countdown, logs, Speech)
    /\ lastEvent' = "disarm"
    /\ UNCHANGED <<isAnalyzing, lastDetection, config, inflight, step, call>>
    /\ ClockStep(FALSE)

\* Variant: the false-alarm button offered in every state
FalseAlarm_Unguarded ==
    /\ Commit("MONITORING", countdown, addLog(logs, "human", "info"), stopSpeaking(Speech, "falseAlarm"))
    /\ lastEvent' = "falseAlarm"
    /\ UNCHANGED <<isAnalyzing, lastDetection, config, inflight, step, call>>
    /\ ClockStep(FALSE)

\* The button is rendered while the status is ALERT only
FalseAlarm ==
    /\ status = "ALERT"
    /\ Commit("MONITORING", countdown, addLog(logs, "human", "info"), stopSpeaking(Speech, "falseAlarm"))
    /\ lastEvent' = "falseAlarm"
    /\ UNCHANGED <<isAnalyzing, lastDetection, config, inflight, step, call>>
    /\ ClockStep(FALSE)

CallForHelp ==
    /\ status = "ALERT"
    /\ Commit("EMERGENCY", countdown, logs, stopSpeaking(Speech, "callForHelp"))
    /\ lastEvent' = "callForHelp"
    /\ UNCHANGED <<isAnalyzing, lastDetection, config, inflight, step, call>>
    /\ ClockStep(FALSE)

----------------------------------------------------------------------------
\* Sampling and inference

isMonitoring == status = "MONITORING"

\* Variant: the handler without setIsAnalyzing(true)
handleFrameAnalysis_NoBusy ==
    /\ ~(status # "MONITORING" \/ isAnalyzing)
    /\ inflight' = inflight + 1
    /\ lastEvent' = "frame"
    /\ UNCHANGED <<status, isAnalyzing, countdown, logs, lastDetection, config,
                   ttsCalls, audio, synth, step, call>>
    /\ ClockStep(TRUE)

\* The handler up to its await: guard, busy flag, provider call
handleFrameAnalysis ==
    /\ ~(status # "MONITORING" \/ isAnalyzing)
    /\ isAnalyzing' = TRUE
    /\ inflight' = inflight + 1
    /\ lastEvent' = "frame"
    /\ UNCHANGED <<status, countdown, logs, lastDetection, config,
                   ttsCalls, audio, synth, step, call>>
    /\ ClockStep(TRUE)

SamplingTick ==
    /\ isMonitoring
    /\ ~isAnalyzing
    /\ TickDue
    /\ handleFrameAnalysis

\* Variant: a tick that finds the handler busy keeps its frame for a later call
SamplingTickDropped_Buffers ==
    /\ isMonitoring
    /\ isAnalyzing
    /\ TickDue
    /\ inflight' = inflight + 1
    /\ lastEvent' = "drop"
    /\ UNCHANGED <<status, isAnalyzing, countdown, logs, lastDetection, config,
                   ttsCalls, audio, synth, step, call>>
    /\ ClockStep(TRUE)

SamplingTickDropped ==
    /\ isMonitoring
    /\ isAnalyzing
    /\ TickDue
    /\ lastEvent' = "drop"
    /\ UNCHANGED <<status, isAnalyzing, countdown, logs, lastDetection, config,
                   inflight, ttsCalls, audio, synth, step, call>>
    /\ ClockStep(TRUE)

\* One second passes.  A due tick fires before more time passes.
Tock ==
    /\ clock.timed
    /\ ~(isMonitoring /\ clock.age = SamplePeriod)
    /\ clock' = [clock EXCEPT
                    !.age = IF isMonitoring THEN @ + 1 ELSE @,
                    !.sinceArm = IF status # "IDLE" /\ @ < SamplePeriod THEN @ + 1 ELSE @]
    /\ UNCHANGED <<status, isAnalyzing, countdown, logs, lastDetection, config,
                   inflight, ttsCalls, audio, synth, lastEvent, step, call>>

\* Variant: the continuation without the finally block
Settle_NoFinally(r, event) ==
    /\ inflight > 0
    /\ inflight' = inflight - 1
    /\ lastDetection' = r
    /\ LET a == AfterResult(r) IN Commit(a.st, a.cd, a.lg, a.sp)
    /\ UNCHANGED isAnalyzing
    /\ lastEvent' = event
    /\ UNCHANGED <<config, call>>
    /\ ClockStep(FALSE)

\* The handler's continuation after analyzeScene resolved with r
Settle(r, event) ==
    /\ inflight > 0
    /\ inflight' = inflight - 1
    /\ lastDetection' = r
    /\ LET a == AfterResult(r) IN Commit(a.st, a.cd, a.lg, a.sp)
    /\ isAnalyzing' = FALSE
    /\ lastEvent' = event
    /\ UNCHANGED <<config, call>>
    /\ ClockStep(FALSE)

Complete(r) == Settle(r, "result")

ResultArrives ==
    /\ \E r \in DetectionResult : Complete(r)
    /\ UNCHANGED step

\* CLOUD: a failed request or an unparsable body is caught inside
\* analyzeScene, which resolves with FailureResult.
AnalysisFails ==
    /\ config.mode = "CLOUD"
    /\ Settle(FailureResult, "failure")
    /\ UNCHANGED step

\* analyzeLocal and analyzeCustom have no try/catch: a failed fetch or an
\* unparsable body rejects, and the handler's catch only prints the error.
AnalysisThrows ==
    /\ inflight > 0
    /\ config.mode # "CLOUD"
    /\ inflight' = inflight - 1
    /\ isAnalyzing' = FALSE
    /\ lastEvent' = "throw"
    /\ UNCHANGED <<status, countdown, logs, lastDetection, config,
                   ttsCalls, audio, synth, step, call>>
    /\ ClockStep(FALSE)

----------------------------------------------------------------------------
\* Countdown

\* Variant: a tick that takes two seconds off
CountdownTick_ByTwo ==
    /\ TimerRunning(status, countdown)
    /\ Commit(status, countdown - 2, logs, Speech)
    /\ lastEvent' = "countdownTick"
    /\ UNCHANGED <<isAnalyzing, lastDetection, config, inflight, step, call>>
    /\ ClockStep(FALSE)

\* Variant: a tick that leaves the countdown as it is
CountdownTick_Stalled ==
    /\ TimerRunning(status, countdown)
    /\ Commit(status, countdown, logs, Speech)
    /\ lastEvent' = "countdownTick"
    /\ UNCHANGED <<isAnalyzing, lastDetection, config, inflight, step, call>>
    /\ ClockStep(FALSE)

CountdownTick ==
    /\ TimerRunning(status, countdown)
    /\ Commit(status, countdown - 1, logs, Speech)
    /\ lastEvent' = "countdownTick"
    /\ UNCHANGED <<isAnalyzing, lastDetection, config, inflight, step, call>>
    /\ ClockStep(FALSE)

----------------------------------------------------------------------------
\* Speech providers and outputs

TtsSucceeds ==
    /\ \E q \in BagToSet(ttsCalls) :
          /\ audio' = audio (+) SetToBag({q})
          /\ ttsCalls' = ttsCalls (-) SetToBag({q})
    /\ lastEvent' = "ttsOk"
    /\ UNCHANGED <<status, isAnalyzing, countdown, logs, lastDetection, config,
                   inflight, synth, step, call>>
    /\ ClockStep(FALSE)

\* The awaited engine call rejects (network error, response not ok) or
\* returns no audio
TtsFails ==
    /\ \E q \in BagToSet(ttsCalls) :
          LET caught == OnEngineFailure([calls |-> ttsCalls (-) SetToBag({q}),
                                         audio |-> audio, synth |-> synth], q)
          IN  /\ ttsCalls' = caught.sp.calls
              /\ synth' = caught.sp.synth
              /\ lastEvent' = caught.event
    /\ UNCHANGED <<status, isAnalyzing, countdown, logs, lastDetection, config,
                   inflight, audio, step, call>>
    /\ ClockStep(FALSE)

AudioEnds ==
    /\ \E q \in BagToSet(audio) : audio' = audio (-) SetToBag({q})
    /\ lastEvent' = "audioEnd"
    /\ UNCHANGED <<status, isAnalyzing, countdown, logs, lastDetection, config,
                   inflight, ttsCalls, synth, step, call>>
    /\ ClockStep(FALSE)

UtteranceEnds ==
    /\ synth # <<>>
    /\ synth' = Tail(synth)
    /\ lastEvent' = "utteranceEnd"
    /\ UNCHANGED <<status, isAnalyzing, countdown, logs, lastDetection, config,
                   inflight, ttsCalls, audio, step, call>>
    /\ ClockStep(FALSE)

----------------------------------------------------------------------------

Next ==
    \/ Arm
    \/ Disarm
    \/ FalseAlarm
    \/ CallForHelp
    \/ SamplingTick
    \/ SamplingTickDropped
    \/ ResultArrives
    \/ AnalysisFails
    \/ AnalysisThrows
    \/ CountdownTick
    \/ TtsSucceeds
    \/ TtsFails
    \/ AudioEnds
    \/ UtteranceEnds

Spec == Init /\ [][Next]_vars

----------------------------------------------------------------------------
\* End-to-end scenario: after arming, the provider answers with confidence
\* 0.1, then 0.3, then 0.6 with a fall detected

ScriptResults(k) ==
    IF k = 1 THEN [isFallDetected : BOOLEAN, confidence : {10}, posture : Postures]
    ELSE IF k = 2 THEN [isFallDetected : BOOLEAN, confidence : {30}, posture : Postures]
    ELSE [isFallDetected : {TRUE}, confidence : {60}, posture : Postures]

ScriptedResult ==
    /\ step < 3
    /\ \E r \in ScriptResults(step + 1) : Complete(r)
    /\ step' = step + 1

NextE2E ==
    \/ Arm
    \/ SamplingTick
    \/ SamplingTickDropped
    \/ ScriptedResult

SpecE2E == Init /\ [][NextE2E]_vars

----------------------------------------------------------------------------
\* The pipeline with a countdown interval that keeps firing.  The browser
\* runs the callback of a live interval every second, hence the weak fairness
\* of CountdownTick.  A critical result is taken only when the log has room
\* for the two entries of its incident, so that the bound on the log never
\* disables the tick that ends a countdown.

LiveResultArrives ==
    /\ \E r \in DetectionResult :
          /\ IsCritical(r) => Len(logs) + 2 <= MaxLog
          /\ Complete(r)
    /\ UNCHANGED step

NextLive ==
    \/ Arm
    \/ Disarm
    \/ FalseAlarm
    \/ CallForHelp
    \/ SamplingTick
    \/ SamplingTickDropped
    \/ LiveResultArrives
    \/ AnalysisFails
    \/ AnalysisThrows
    \/ CountdownTick
    \/ TtsSucceeds
    \/ TtsFails
    \/ AudioEnds
    \/ UtteranceEnds

SpecLive == Init /\ [][NextLive]_vars /\ WF_vars(CountdownTick)

----------------------------------------------------------------------------
\* The pipeline in discrete time, with the cloud provider and the on-device
\* voice: sampling ticks fire when the interval is SamplePeriod old.

InitTimed ==
    /\ clock = Timed
    /\ call = NoCall
    /\ status = "IDLE"
    /\ isAnalyzing = FALSE
    /\ countdown = CountdownStart
    /\ logs = <<>>
    /\ lastDetection = InitialDetection
    /\ config = [mode |-> "CLOUD", voiceType |-> "local", customTtsReady |-> FALSE]
    /\ inflight = 0
    /\ ttsCalls = EmptyBag
    /\ audio = EmptyBag
    /\ synth = <<>>
    /\ lastEvent = "init"
    /\ step = 0

NextTimed ==
    \/ Arm
    \/ Disarm
    \/ FalseAlarm
    \/ CallForHelp
    \/ SamplingTick
    \/ SamplingTickDropped
    \/ ResultArrives
    \/ AnalysisFails
    \/ CountdownTick
    \/ UtteranceEnds
    \/ Tock

SpecTimed == InitTimed /\ [][NextTimed]_vars

----------------------------------------------------------------------------
\* Service functions applied on their own: call holds the argument, and the
\* result once the function has returned.

Pending(fn, arg) == [fn |-> fn, arg |-> arg, done |-> FALSE]

Returned(fn, arg, out) == [fn |-> fn, arg |-> arg, done |-> TRUE, out |-> out]

\* The application before anything else has happened
Quiescent ==
    /\ clock = Untimed
    /\ status = "IDLE"
    /\ isAnalyzing = FALSE
    /\ countdown = CountdownStart
    /\ logs = <<>>
    /\ lastDetection = InitialDetection
    /\ inflight = 0
    /\ ttsCalls = EmptyBag
    /\ audio = EmptyBag
    /\ synth = <<>>
    /\ lastEvent = "init"
    /\ step = 0

InitSanitize ==
    /\ Quiescent
    /\ config \in {c \in SystemConfig : c.mode = "CLOUD" /\ c.voiceType = "local"}
    /\ call \in {Pending("sanitizeForTTS", text) : text \in Texts}

ApplySanitize ==
    /\ call.fn = "sanitizeForTTS"
    /\ ~call.done
    /\ call' = Returned(call.fn, call.arg, sanitizeForTTS(call.arg))
    /\ UNCHANGED <<status, isAnalyzing, countdown, logs, lastDetection, config,
                   inflight, ttsCalls, audio, synth, lastEvent, step, clock>>

NextSanitize == ApplySanitize

SpecSanitize == InitSanitize /\ [][NextSanitize]_vars

InitValidate ==
    /\ Quiescent
    /\ config \in {c \in SystemConfig : c.voiceType = "local"}
    /\ call \in {Pending("validateResult", raw) : raw \in RawPayload}

ApplyValidate ==
    /\ call.fn = "validateResult"
    /\ ~call.done
    /\ call' = Returned(call.fn, call.arg, validateResult(call.arg))
    /\ UNCHANGED <<status, isAnalyzing, countdown, logs, lastDetection, config,
                   inflight, ttsCalls, audio, synth, lastEvent, step, clock>>

NextValidate == ApplyValidate

SpecValidate == InitValidate /\ [][NextValidate]_vars

\* dispatchSpeak called with raw texts, at most MaxSpeak times

SpeakTexts ==
    {<<>>, <<"a">>, <<"a", "COLON", "a">>, <<"LBRACE", "RBRACE">>, <<"SP", "FWCOLON">>}

Dispatched(text, n) == [fn |-> "dispatchSpeak", arg |-> text, n |-> n]

InitSpeak ==
    /\ Quiescent
    /\ config \in {c \in SystemConfig : c.mode = "CLOUD"}
    /\ call = Dispatched(<<>>, 0)

\* The engine throws before any await
FailsAtOnce(text, cfg) ==
    /\ sanitizeForTTS(text) # <<>>
    /\ cfg.voiceType = "custom_api"
    /\ ~RemoteCallStarts(cfg)

SpeakText ==
    /\ call.fn = "dispatchSpeak"
    /\ call.n < MaxSpeak
    /\ \E text \in SpeakTexts :
          LET said == dispatchSpeakText(Speech, text, config)
          IN  /\ ttsCalls' = said.calls
              /\ audio' = said.audio
              /\ synth' = said.synth
              /\ call' = Dispatched(text, call.n + 1)
              /\ lastEvent' =
                    IF FailsAtOnce(text, config)
                    THEN OnEngineFailure(Speech, Request(sanitizeForTTS(text), "none")).event
                    ELSE "speak"
    /\ UNCHANGED <<status, isAnalyzing, countdown, logs, lastDetection, config,
                   inflight, step, clock>>

NextSpeak ==
    \/ SpeakText
    \/ TtsSucceeds
    \/ TtsFails
    \/ AudioEnds
    \/ UtteranceEnds

SpecSpeak == InitSpeak /\ [][NextSpeak]_vars

\* addLog called at most MaxAdds times on a log that was loaded from storage

LogKinds == {LogEntry("fall", "danger"), LogEntry("human", "info"), LogEntry("contact", "danger")}

\* A log of n entries whose kinds alternate, starting at offset k
StoredLog(n, k) ==
    [i \in 1..n |->
        IF (i + k) % 3 = 0 THEN LogEntry("fall", "danger")
        ELSE IF (i + k) % 3 = 1 THEN LogEntry("human", "info")
        ELSE LogEntry("contact", "danger")]

StoredLogs ==
    {StoredLog(n, k) : n \in {0, 1, LogCap - 2, LogCap - 1, LogCap}, k \in 0..2}

Added(entry, n) == [fn |-> "addLog", arg |-> entry, n |-> n]

InitLog ==
    /\ clock = Untimed
    /\ status = "IDLE"
    /\ isAnalyzing = FALSE
    /\ countdown = CountdownStart
    /\ logs \in StoredLogs
    /\ lastDetection = InitialDetection
    /\ config \in {c \in SystemConfig : c.mode = "CLOUD" /\ c.voiceType = "local"}
    /\ inflight = 0
    /\ ttsCalls = EmptyBag
    /\ audio = EmptyBag
    /\ synth = <<>>
    /\ lastEvent = "init"
    /\ step = 0
    /\ call = Added(LogEntry("none", "none"), 0)

AddLogCall ==
    /\ call.fn = "addLog"
    /\ call.n < MaxAdds
    /\ \E entry \in LogKinds :
          /\ logs' = addLog(logs, entry.type, entry.status)
          /\ call' = Added(entry, call.n + 1)
    /\ UNCHANGED <<status, isAnalyzing, countdown, lastDetection, config,
                   inflight, ttsCalls, audio, synth, lastEvent, step, clock>>

NextLog == AddLogCall

SpecLog == InitLog /\ [][NextLog]_vars

\* Emergency contacts: config.contacts, edited through the contact dialog

Contact(id, name, phone, isPrimary) ==
    [id |-> id, name |-> name, phone |-> phone, isPrimary |-> isPrimary]

DefaultContacts == <<Contact(1, "n", "120", TRUE)>>

\* What the dialog can hold when the save button is pressed
EditingContacts ==
    [id : 1..MaxContactId, name : {"", "n"}, phone : {"", "120", "110"}, isPrimary : BOOLEAN]

\* Variant: without the pass that clears isPrimary on the other contacts
handleSaveContact_NoDemote(contacts, editingContact) ==
    IF editingContact.name = "" \/ editingContact.phone = "" THEN contacts
    ELSE IF \E i \in 1..Len(contacts) : contacts[i].id = editingContact.id
    THEN [i \in 1..Len(contacts) |->
            IF contacts[i].id = editingContact.id THEN editingContact ELSE contacts[i]]
    ELSE Append(contacts, editingContact)

handleSaveContact(contacts, editingContact) ==
    IF editingContact.name = "" \/ editingContact.phone = "" THEN contacts
    ELSE LET exists == \E i \in 1..Len(contacts) : contacts[i].id = editingContact.id
             newContacts ==
                 IF exists
                 THEN [i \in 1..Len(contacts) |->
                         IF contacts[i].id = editingContact.id THEN editingContact ELSE contacts[i]]
                 ELSE Append(contacts, editingContact)
         IN  IF editingContact.isPrimary
             THEN [i \in 1..Len(newContacts) |->
                     [newContacts[i] EXCEPT !.isPrimary = (newContacts[i].id = editingContact.id)]]
             ELSE newContacts

\* config.contacts.filter(con => con.id !== id)
deleteContact(contacts, id) ==
    LET keep(con) == con.id # id IN SelectSeq(contacts, keep)

InitContacts ==
    /\ Quiescent
    /\ config = [mode |-> "CLOUD", voiceType |-> "ai", customTtsReady |-> FALSE,
                 contacts |-> DefaultContacts]
    /\ call = NoCall

SaveContact ==
    /\ \E editingContact \in EditingContacts :
          /\ config' = [config EXCEPT !.contacts = handleSaveContact(@, editingContact)]
          /\ call' = [fn |-> "handleSaveContact", arg |-> editingContact]
    /\ UNCHANGED <<status, isAnalyzing, countdown, logs, lastDetection,
                   inflight, ttsCalls, audio, synth, lastEvent, step, clock>>

DeleteContact ==
    /\ \E i \in 1..Len(config.contacts) :
          /\ config' = [config EXCEPT !.contacts = deleteContact(@, config.contacts[i].id)]
          /\ call' = [fn |-> "deleteContact", arg |-> config.contacts[i].id]
    /\ UNCHANGED <<status, isAnalyzing, countdown, logs, lastDetection,
                   inflight, ttsCalls, audio, synth, lastEvent, step, clock>>

NextContacts ==
    \/ SaveContact
    \/ DeleteContact

SpecContacts == InitContacts /\ [][NextContacts]_vars

\* Custom inference mode, with any of its three required fields left empty

CustomFields == {"customBaseUrl", "customApiKey", "customModel"}

InitCustom ==
    /\ Quiescent
    /\ config \in {[mode |-> "CUSTOM", voiceType |-> "local", customTtsReady |-> FALSE,
                     customEmpty |-> e] : e \in SUBSET CustomFields}
    /\ call = NoCall

NextCustom ==
    \/ Arm
    \/ Disarm
    \/ FalseAlarm
    \/ CallForHelp
    \/ SamplingTick
    \/ SamplingTickDropped
    \/ ResultArrives
    \/ AnalysisThrows
    \/ CountdownTick
    \/ UtteranceEnds

SpecCustom == InitCustom /\ [][NextCustom]_vars

\* Two incidents in a row, with the cloud provider and the on-device voice

InitIncidents ==
    /\ Quiescent
    /\ config = [mode |-> "CLOUD", voiceType |-> "local", customTtsReady |-> FALSE]
    /\ call = [fn |-> "incidents"]

NextIncidents ==
    \/ Arm
    \/ Disarm
    \/ FalseAlarm
    \/ CallForHelp
    \/ SamplingTick
    \/ SamplingTickDropped
    \/ ResultArrives
    \/ AnalysisFails
    \/ CountdownTick
    \/ UtteranceEnds

SpecIncidents == InitIncidents /\ [][NextIncidents]_vars

----------------------------------------------------------------------------
\* Properties

Audible == BagCardinality(audio) + Len(synth)

Requested(msg) ==
    LET of(B) == CopiesIn(Request(msg, "none"), B)
                 + CopiesIn(Request(msg, "falseAlarm"), B)
                 + CopiesIn(Request(msg, "callForHelp"), B)
    IN  of(ttsCalls) + of(audio)
        + Cardinality({i \in 1..Len(synth) : synth[i].msg = msg})

\* C1: at most one analyzeScene call is in flight in every reachable state; a
\* sampling tick that finds an earlier call outstanding starts no second one.
C1_SingleFlight == inflight <= 1

C1_Witness == lastEvent = "drop" /\ inflight = 1 /\ isAnalyzing

\* C2: a critical result (fall detected, confidence above 0.4) handled while
\* the state is MONITORING leaves the state ALERT and the countdown at 10,
\* whatever value an earlier incident left in the countdown.
C2_CriticalEntersAlert ==
    [][(lastEvent' = "result" /\ status = "MONITORING"
        /\ lastDetection'.isFallDetected /\ lastDetection'.confidence > 40)
       => (status' = "ALERT" /\ countdown' = 10)]_vars

C2_Witness ==
    /\ lastEvent = "result"
    /\ status = "ALERT"
    /\ countdown = 10
    /\ CountLogs(logs, "fall", "danger") = 2

\* C3: every transition into ALERT starts in MONITORING.
C3_AlertOnlyFromMonitoring ==
    [][(status' = "ALERT" /\ status # "ALERT") => status = "MONITORING"]_vars

\* C4: the countdown tick that brings the countdown to 0 in ALERT, and no
\* other tick, moves the state to EMERGENCY with one emergency log entry and
\* one confirmation request; once the state is EMERGENCY no step adds an
\* emergency log entry or a confirmation request again.
C4_TimeoutOnce ==
    [][/\ (status = "ALERT" /\ lastEvent' = "countdownTick")
            => IF countdown' = 0
               THEN /\ status' = "EMERGENCY"
                    /\ logs' = <<LogEntry("contact", "danger")>> \o logs
                    /\ Requested("confirm")' = Requested("confirm") + 1
               ELSE /\ status' = "ALERT"
                    /\ logs' = logs
                    /\ Requested("confirm")' = Requested("confirm")
       /\ status = "EMERGENCY"
            => /\ status' \in {"EMERGENCY", "IDLE"}
               /\ logs' = logs
               /\ Requested("confirm")' <= Requested("confirm")]_vars

C4_Witness ==
    /\ lastEvent = "countdownTick"
    /\ status = "EMERGENCY"
    /\ countdown = 0
    /\ CountLogs(logs, "contact", "danger") = 1

\* C5 as stated: a false-alarm command sets the state to MONITORING, stops the
\* countdown timer and resets the countdown to its initial value.
C5_FalseAlarmResets ==
    [][lastEvent' = "falseAlarm"
       => (status' = "MONITORING" /\ countdown' = 10
           /\ ~TimerRunning(status', countdown'))]_vars

\* C5 amended: a false-alarm command sets the state to MONITORING and stops
\* the countdown timer while the countdown keeps its value; outside ALERT no
\* step changes the countdown or enters EMERGENCY, until ALERT is entered again.
C5_FalseAlarmStopsTimer ==
    [][/\ lastEvent' = "falseAlarm"
            => (status = "ALERT" /\ status' = "MONITORING"
                /\ countdown' = countdown /\ ~TimerRunning(status', countdown'))
       /\ (status \notin {"ALERT", "EMERGENCY"} /\ status' # "ALERT")
            => (countdown' = countdown /\ status' # "EMERGENCY")]_vars

C5_Witness ==
    /\ lastEvent = "falseAlarm"
    /\ status = "MONITORING"
    /\ countdown = 1

\* C6: no request that existed when the false-alarm command called
\* stopSpeaking is audible afterwards, on any output channel.
C6_FalseAlarmSilences ==
    /\ \A q \in BagToSet(audio) : q.cancelled # "falseAlarm"
    /\ \A i \in 1..Len(synth) : synth[i].cancelled # "falseAlarm"

\* C7: at most one spoken message is audible at a time.
C7_OneSpokenMessage == Audible <= 1

\* C8: handling a result with confidence of at most 0.2 adds no log entry and
\* changes neither the state nor the countdown.
C8_LowConfidenceNoEffect ==
    [][(lastEvent' = "result" /\ lastDetection'.confidence <= 20)
       => (logs' = logs /\ status' = status /\ countdown' = countdown)]_vars

C8_Witness ==
    /\ lastEvent = "result"
    /\ lastDetection.confidence = 20
    /\ lastDetection.isFallDetected

\* C9: a result is critical when a fall is detected with confidence above
\* 0.4, informational when it is not critical and its confidence is above
\* 0.2, and otherwise neither.  A critical result adds a danger entry, an
\* informational one adds exactly one info entry and changes neither state,
\* countdown nor speech, and any other result adds no entry.
C9_Classification ==
    [][lastEvent' = "result"
       => LET r == lastDetection'
              critical == r.isFallDetected /\ r.confidence > 40
              informational == ~critical /\ r.confidence > 20
          IN  /\ critical => logs' = <<LogEntry("fall", "danger")>> \o logs
              /\ informational
                    => /\ logs' = <<LogEntry("human", "info")>> \o logs
                       /\ status' = status
                       /\ countdown' = countdown
                       /\ <<ttsCalls', audio', synth'>> = <<ttsCalls, audio, synth>>
              /\ (~critical /\ ~informational) => logs' = logs]_vars

C9_Witness ==
    /\ lastEvent = "result"
    /\ lastDetection.isFallDetected
    /\ lastDetection.confidence = 40
    /\ logs # <<>>
    /\ logs[1] = LogEntry("human", "info")

\* C10: in the scenario, nothing is logged and the state stays MONITORING
\* after the first result; exactly one info entry exists after the second;
\* after the third the log holds one danger entry besides it, the state is
\* ALERT, the countdown is 10 and exactly one notification was requested.
C10_EndToEnd ==
    /\ step \in {0, 1} => (logs = <<>> /\ Requested("inquiry") = 0)
    /\ step = 1 => status = "MONITORING"
    /\ step = 2 => /\ logs = <<LogEntry("human", "info")>>
                   /\ status = "MONITORING"
                   /\ Requested("inquiry") = 0
    /\ step = 3 => /\ logs = <<LogEntry("fall", "danger"), LogEntry("human", "info")>>
                   /\ status = "ALERT"
                   /\ countdown = 10
                   /\ Requested("inquiry") = 1
                   /\ Requested("confirm") = 0

C10_Witness ==
    /\ step = 3
    /\ lastEvent = "result"
    /\ status = "ALERT"
    /\ lastDetection.confidence = 60

\* C15: analyzeScene never raises, in any provider mode: a failed transport or
\* an unparsable body makes it return the result with isFallDetected false,
\* confidence 0 and posture "unknown".
C15_AnalyzeNeverRaises ==
    /\ lastEvent # "throw"
    /\ lastEvent = "failure" =>
          lastDetection = [isFallDetected |-> FALSE, confidence |-> 0, posture |-> "unknown"]

\* C17: in every provider mode, a failed or malformed analysis adds exactly
\* one log entry of warning severity and changes neither the status nor the
\* countdown nor the speech channels.
C17_FailureLogsWarning ==
    [][lastEvent' \in {"throw", "failure"} /\ inflight' < inflight =>
          /\ Len(logs') = Len(logs) + 1
          /\ logs'[1].status = "warning"
          /\ SubSeq(logs', 2, Len(logs')) = logs
          /\ UNCHANGED <<status, countdown, ttsCalls, audio, synth>>]_vars

\* C18: the busy flag is set exactly while an analyzeScene call is in flight:
\* it is set when the call starts and cleared when the call settles, whether
\* with a critical, an informational or an unlogged result or by an exception.
C18_BusyWhileInFlight == isAnalyzing <=> inflight > 0

C18_Witness == lastEvent = "throw" /\ ~isAnalyzing /\ inflight = 0 /\ status = "MONITORING"

\* C20: every step from ALERT to EMERGENCY, by timeout or by the call-for-help
\* command, issues one confirmation request, adds one contact entry of danger
\* severity to the log and leaves no countdown timer running.
C20_EscalationProcedure ==
    [][status = "ALERT" /\ status' = "EMERGENCY" =>
          /\ logs' = <<LogEntry("contact", "danger")>> \o logs
          /\ Requested("confirm")' = Requested("confirm") + 1
          /\ ~TimerRunning(status', countdown')]_vars

\* C19: while the system is disarmed no sampling tick emits a frame and no
\* analyzeScene call starts; after arming, the first frame is emitted no
\* earlier than one full sampling period after the arming.
C19_NoSamplingWhileDisarmed ==
    [][/\ status = "IDLE" => inflight' <= inflight /\ lastEvent' \notin {"frame", "drop"}
       /\ inflight' > inflight => clock.sinceArm = SamplePeriod]_vars

C19_Witness ==
    /\ clock.timed
    /\ clock.disarmed
    /\ lastEvent = "frame"
    /\ inflight = 1
    /\ clock.sinceArm = SamplePeriod

HasNone(text, S) == \A i \in 1..Len(text) : text[i] \notin S

HasOnly(text, S) == \A i \in 1..Len(text) : text[i] \in S

\* Whitespace occurs in text only as single spaces between other characters
SingleSpaced(text) ==
    /\ HasNone(text, WhitespaceChars \ {"SP"})
    /\ text # <<>> => text[1] # "SP" /\ text[Len(text)] # "SP"
    /\ \A i \in 1..(Len(text) - 1) : ~(text[i] = "SP" /\ text[i + 1] = "SP")

\* C13 as stated: sanitizeForTTS returns a text unchanged when it contains
\* none of the replaced characters (braces, double quote, square brackets,
\* ASCII and full-width colon), and returns the empty text when it consists
\* of replaced characters only.
C13_SanitizeIdentityOrEmpty ==
    (call.fn = "sanitizeForTTS" /\ call.done) =>
        /\ HasNone(call.arg, BracketChars \cup ColonChars) => call.out = call.arg
        /\ HasOnly(call.arg, BracketChars \cup ColonChars) => call.out = <<>>

\* C13 amended: sanitizeForTTS returns a text unchanged when it contains none
\* of the replaced characters and its whitespace is single spaces between
\* other characters only, and returns the empty text when it consists of
\* replaced characters only.
C13_SanitizeIdentityWhenSingleSpaced ==
    (call.fn = "sanitizeForTTS" /\ call.done) =>
        /\ (HasNone(call.arg, BracketChars \cup ColonChars) /\ SingleSpaced(call.arg))
              => call.out = call.arg
        /\ HasOnly(call.arg, BracketChars \cup ColonChars) => call.out = <<>>

C13_Witness ==
    /\ call.fn = "sanitizeForTTS"
    /\ call.done
    /\ call.arg = <<"a", "SP", "a">>
    /\ call.out = call.arg

\* C16: for every raw payload, with any subset of its four fields missing,
\* the validated result has every field present: a missing confidence is 0, a
\* missing posture is "unknown", a missing reasoning is a non-empty string, and
\* isFallDetected is a boolean.
C16_FullyPopulated ==
    (call.fn = "validateResult" /\ call.done) =>
        /\ call.arg.confidence = Undefined => call.out.confidence = JsNum(0)
        /\ call.arg.posture = Undefined => call.out.posture = JsStr("unknown")
        /\ call.arg.reasoning = Undefined =>
              call.out.reasoning.t = "string" /\ call.out.reasoning.v # ""
        /\ call.out.isFallDetected.t = "boolean"
        /\ \A f \in DOMAIN call.out : call.out[f].t \notin {"undefined", "null"}

C16_Witness ==
    /\ call.fn = "validateResult"
    /\ call.done
    /\ \A f \in DOMAIN call.arg : call.arg[f] = Undefined
    /\ call.out = [isFallDetected |-> JsBool(FALSE), confidence |-> JsNum(0),
                   reasoning |-> JsStr("placeholder"), posture |-> JsStr("unknown")]

Dispatching == call.fn = "dispatchSpeak" /\ call'.n = call.n + 1

\* C12: dispatchSpeak tries the preferred engine first.  When the engine
\* fails (for custom_api with an empty URL or key: at once, without a network
\* call) the same sanitized text is spoken on the device, once; when the
\* engine succeeds nothing is spoken on the device.
C12_FallbackChain ==
    [][/\ (Dispatching /\ lastEvent' = "speak" /\ sanitizeForTTS(call'.arg) # <<>>
            /\ config.voiceType # "local") =>
              /\ ttsCalls' = ttsCalls (+) SetToBag({Request(sanitizeForTTS(call'.arg), "none")})
              /\ synth' = synth
       /\ (Dispatching /\ lastEvent' = "ttsFail") =>
              /\ config.voiceType = "custom_api" /\ ~config.customTtsReady
              /\ ttsCalls' = ttsCalls
              /\ synth' = <<Request(sanitizeForTTS(call'.arg), "none")>>
       /\ (~Dispatching /\ lastEvent' = "ttsFail") =>
              \E q \in BagToSet(ttsCalls) :
                  /\ ttsCalls' = ttsCalls (-) SetToBag({q})
                  /\ synth' = <<q>>
                  /\ audio' = audio
       /\ (Dispatching /\ config.voiceType = "custom_api" /\ ~config.customTtsReady) =>
              ttsCalls' = ttsCalls
       /\ lastEvent' = "ttsOk" =>
              /\ synth' = synth
              /\ \E q \in BagToSet(ttsCalls) :
                    ttsCalls' = ttsCalls (-) SetToBag({q}) /\ audio' = audio (+) SetToBag({q})]_vars

C12_Witness ==
    /\ call.fn = "dispatchSpeak"
    /\ lastEvent = "ttsFail"
    /\ config.voiceType = "custom_api"
    /\ ~config.customTtsReady
    /\ ttsCalls = EmptyBag
    /\ synth = <<Request(<<"a", "SP", "a">>, "none")>>

\* C14: a dispatchSpeak call whose sanitized text is empty starts no engine
\* call, speaks nothing on the device and leaves what is playing untouched.
C14_EmptyTextNoCalls ==
    [][(Dispatching /\ sanitizeForTTS(call'.arg) = <<>>) =>
          UNCHANGED <<ttsCalls, audio, synth>>]_vars

C14_Witness ==
    /\ call.fn = "dispatchSpeak"
    /\ lastEvent = "speak"
    /\ call.arg = <<"LBRACE", "RBRACE">>
    /\ synth # <<>>

C22_DisarmSilences ==
    [][(lastEvent' = "disarm" /\ status # "IDLE" /\ status' = "IDLE") =>
          (ttsCalls' = EmptyBag /\ Audible' = 0)]_vars

\* C23: from EMERGENCY the state changes only to IDLE, and only by the disarm
\* command; results, countdown ticks, false-alarm and call-for-help commands
\* leave it EMERGENCY.
C23_EmergencyTerminal ==
    [][status = "EMERGENCY" =>
          /\ status' # "EMERGENCY" => (status' = "IDLE" /\ lastEvent' = "disarm")
          /\ lastEvent' \notin {"result", "failure", "throw", "countdownTick",
                                "falseAlarm", "callForHelp", "frame", "drop"}]_vars

C23_Witness ==
    /\ status = "IDLE"
    /\ lastEvent = "disarm"
    /\ countdown = 0
    /\ CountLogs(logs, "contact", "danger") = 1

\* C24: sampling is armed exactly while the state is not IDLE: a tick emits
\* a frame in MONITORING, ALERT and EMERGENCY and none in IDLE.
C24_ArmedWhileNotIdle == isMonitoring <=> status # "IDLE"

\* C26: the countdown stays within 0..10; it changes only by a tick in ALERT,
\* which takes exactly 1 off, and by the entry into ALERT, which sets it to 10.
C26_CountdownRange ==
    [][/\ countdown \in 0..CountdownStart
       /\ countdown' \in 0..CountdownStart
       /\ lastEvent' = "countdownTick" => (status = "ALERT" /\ countdown' = countdown - 1)
       /\ countdown' # countdown =>
             \/ lastEvent' = "countdownTick"
             \/ lastEvent' = "result" /\ status' = "ALERT" /\ countdown' = CountdownStart]_vars

C26_Witness ==
    /\ status = "ALERT"
    /\ lastEvent = "countdownTick"
    /\ countdown = 1

\* C28: a tick that finds the handler busy starts no call and leaves nothing
\* behind; a call starts only in the step of a tick that finds the handler
\* not busy, one call per tick.
C28_DropNotBuffer ==
    [][/\ lastEvent' = "drop" =>
             UNCHANGED <<status, isAnalyzing, countdown, logs, lastDetection,
                         inflight, ttsCalls, audio, synth>>
       /\ inflight' > inflight =>
             /\ lastEvent' = "frame"
             /\ isMonitoring
             /\ ~isAnalyzing
             /\ inflight' = inflight + 1]_vars

C28_Witness ==
    /\ lastEvent = "drop"
    /\ inflight = 1
    /\ isAnalyzing
    /\ status = "MONITORING"
    /\ lastDetection # InitialDetection

\* C29: a result handled while the state is IDLE, that is, the result of a
\* call that was in flight when the system was disarmed, changes neither the
\* log nor the state nor the countdown and requests no notification.
C29_DisarmCancelsPendingResult ==
    [][(status = "IDLE" /\ lastEvent' = "result" /\ inflight' < inflight) =>
          UNCHANGED <<status, countdown, logs, ttsCalls, audio, synth>>]_vars

\* C30: a disarm command in ALERT leaves the state IDLE with no countdown
\* timer running; while the state is IDLE no countdown tick fires, the
\* countdown does not decrease and the state does not become EMERGENCY.
C30_DisarmStopsCountdown ==
    [][/\ (status = "ALERT" /\ lastEvent' = "disarm") =>
             /\ status' = "IDLE"
             /\ countdown' = countdown
             /\ ~TimerRunning(status', countdown')
       /\ status = "IDLE" =>
             /\ lastEvent' # "countdownTick"
             /\ countdown' >= countdown
             /\ status' # "EMERGENCY"]_vars

C30_Witness ==
    /\ status = "IDLE"
    /\ lastEvent = "disarm"
    /\ countdown \in 1..(CountdownStart - 1)
    /\ CountLogs(logs, "fall", "danger") = 1

\* C25: a countdown timer is running exactly when the state is ALERT, and
\* never more than one countdown interval exists.
C25_TimerIffAlert ==
    /\ TimerRunning(status, countdown) <=> status = "ALERT"
    /\ clock.timers = (IF status = "ALERT" THEN 1 ELSE 0)

C25_Witness ==
    /\ status = "ALERT"
    /\ lastEvent = "countdownTick"
    /\ countdown = 5
    /\ clock.timers = 1

HumanCommands == {"falseAlarm", "callForHelp", "disarm"}

\* C27: with a countdown interval that keeps firing, every ALERT state is
\* followed by EMERGENCY or by a human command; the countdown starts at 10 on
\* entry into ALERT, each tick takes 1 off, and the tick that reaches 0, and
\* no earlier one, makes the state EMERGENCY: ten ticks without a command.
C27_AlertEnds ==
    /\ (status = "ALERT") ~> (status = "EMERGENCY" \/ lastEvent \in HumanCommands)
    /\ [][/\ (status # "ALERT" /\ status' = "ALERT") => countdown' = CountdownStart
          /\ (status = "ALERT" /\ lastEvent' = "countdownTick") =>
                /\ countdown' = countdown - 1
                /\ status' = (IF countdown' = 0 THEN "EMERGENCY" ELSE "ALERT")
          /\ (status = "ALERT" /\ status' # "ALERT") =>
                lastEvent' \in HumanCommands \cup {"countdownTick"}]_vars

C27_Witness ==
    /\ status = "EMERGENCY"
    /\ lastEvent = "countdownTick"
    /\ countdown = 0
    /\ IsCritical(lastDetection)
    /\ logs = <<LogEntry("contact", "danger"), LogEntry("fall", "danger")>>

C33_AppendOnly ==
    [][call'.n = call.n + 1 =>
          /\ Len(logs') = Len(logs) + 1
          /\ Tail(logs') = logs]_vars

\* C33 amended: an addLog call on a log of fewer than 500 entries adds exactly
\* one entry and leaves every earlier entry present, unchanged and in the
\* same order; on a log of 500 entries it discards the oldest entry and
\* leaves the other 499 unchanged and in the same order.
C33_AppendOnlyBelowCap ==
    [][call'.n = call.n + 1 =>
          IF Len(logs) < LogCap
          THEN /\ Len(logs') = Len(logs) + 1
               /\ Tail(logs') = logs
          ELSE /\ Len(logs') = LogCap
               /\ Tail(logs') = SubSeq(logs, 1, LogCap - 1)]_vars

C33_Witness ==
    /\ call.fn = "addLog"
    /\ call.n = 2
    /\ Len(logs) = 3
    /\ logs[3] = LogEntry("human", "info")

\* C36: the log never holds more than 500 entries and the entry added last
\* is first; an addLog call on a log of 500 entries discards the oldest
\* entry and keeps the other 499 in their order.
C36_LogCap ==
    [][call'.n = call.n + 1 =>
          /\ Len(logs) <= LogCap
          /\ Len(logs') <= LogCap
          /\ logs'[1] = call'.arg
          /\ Len(logs) = LogCap =>
                \A i \in 1..(LogCap - 1) : logs'[i + 1] = logs[i]]_vars

C36_Witness ==
    /\ call.fn = "addLog"
    /\ call.n = MaxAdds
    /\ Len(logs) = LogCap
    /\ logs[1] = call.arg
    /\ logs[LogCap] = StoredLog(LogCap, 0)[LogCap - MaxAdds]

Primaries(contacts) == {i \in 1..Len(contacts) : contacts[i].isPrimary}

\* C38: at most one contact is primary after any sequence of save and delete
\* operations on the default list, and a saved contact that is marked primary
\* is the only primary contact afterwards.
C38_OnePrimary ==
    /\ Cardinality(Primaries(config.contacts)) <= 1
    /\ (call.fn = "handleSaveContact" /\ call.arg.isPrimary
         /\ call.arg.name # "" /\ call.arg.phone # "") =>
            /\ Cardinality(Primaries(config.contacts)) = 1
            /\ \A i \in Primaries(config.contacts) : config.contacts[i] = call.arg

C38_Witness ==
    /\ call.fn = "handleSaveContact"
    /\ call.arg.isPrimary
    /\ call.arg.id = 2
    /\ Len(config.contacts) = 3
    /\ config.contacts[1].id = 1
    /\ ~config.contacts[1].isPrimary
    /\ config.contacts[3].isPrimary

\* C31: a validated detection result has a numeric confidence within [0, 1]
\* (0..100 in hundredths) and a posture among standing, sitting, lying, none
\* and unknown, whatever the raw payload was.
C31_NormalizedRanges ==
    (call.fn = "validateResult" /\ call.done) =>
        /\ call.out.confidence.t = "number"
        /\ call.out.confidence.v \in 0..100
        /\ call.out.posture.v \in {"standing", "sitting", "lying", "none", "unknown"}

\* C32: in custom mode with an empty base URL, API key or model, a sampled
\* frame starts no network request, adds exactly one warning log entry and
\* leaves the state MONITORING.
C32_EmptyCustomFieldNoRequest ==
    [][(config.mode = "CUSTOM" /\ config.customEmpty # {} /\ lastEvent' = "frame") =>
          /\ inflight' = inflight
          /\ Len(logs') = Len(logs) + 1
          /\ logs'[1].status = "warning"
          /\ Tail(logs') = logs
          /\ status' = "MONITORING"]_vars

\* A step that adds the entry of the emergency procedure to the log
ProcedureRuns ==
    /\ Len(logs') > Len(logs)
    /\ logs'[1] = LogEntry("contact", "danger")

\* C34: the timeout escalation always needs a full countdown.  Every entry
\* into ALERT sets the countdown to 10 in the same commit, also when the
\* previous incident left it at 0; in ALERT the countdown only goes down by
\* one per tick or back to 10; and the emergency procedure only runs on the
\* tick that takes the countdown from 1 to 0.  No committed state has ALERT
\* with countdown 0.
C34_FullCountdown ==
    [][/\ (status # "ALERT" /\ status' = "ALERT") => countdown' = CountdownStart
       /\ (status = "ALERT" /\ status' = "ALERT") =>
              countdown' \in {countdown, countdown - 1, CountdownStart}
       /\ ProcedureRuns =>
              /\ status = "ALERT"
              /\ countdown = 1
              /\ countdown' = 0
              /\ lastEvent' = "countdownTick"
       /\ ~(status' = "ALERT" /\ countdown' = 0)]_vars

C34_Witness ==
    /\ status = "ALERT"
    /\ countdown = CountdownStart
    /\ lastEvent = "result"
    /\ Len(logs) = 3
    /\ logs[1] = LogEntry("fall", "danger")
    /\ logs[2] = LogEntry("contact", "danger")

\* A step after which more confirmation messages are pending or audible
ConfirmDispatched == Requested("confirm")' > Requested("confirm")

\* C35: the emergency procedure runs at most once per incident.  It runs
\* only in a step that leaves ALERT for EMERGENCY, where it adds one emergency
\* entry and dispatches at most one confirmation; no step taken in another
\* state, call-for-help and late ticks included, runs it; and two emergency
\* entries of the log always have the fall entry of a later incident between
\* them.
C35_ProcedureOncePerIncident ==
    [][/\ (ProcedureRuns \/ ConfirmDispatched) =>
              /\ status = "ALERT"
              /\ status' = "EMERGENCY"
              /\ logs' = <<LogEntry("contact", "danger")>> \o logs
              /\ Requested("confirm")' <= Requested("confirm") + 1
       /\ \A i, j \in 1..Len(logs') :
              (i < j /\ logs'[i] = LogEntry("contact", "danger")
                     /\ logs'[j] = LogEntry("contact", "danger")) =>
                  \E k \in (i + 1)..(j - 1) : logs'[k] = LogEntry("fall", "danger")]_vars

C35_Witness ==
    /\ status = "EMERGENCY"
    /\ countdown = 0
    /\ Len(logs) = 4
    /\ logs[1] = LogEntry("contact", "danger")
    /\ logs[3] = LogEntry("contact", "danger")
    /\ lastEvent = "countdownTick"

====
